---- MODULE Spec2Model ----
(***************************************************************************)
(* Model of the key-generator registry and the accessor synthesizer of     *)
(* gsettings-codegen (src/generators/mod.rs).                              *)
(*                                                                         *)
(* Spec      : a KeyGenerators registry built by with_defaults and then    *)
(*             mutated by add_signature_overrides / add_key_name_overrides;*)
(*             get is a pure function of the registry and a schema key.    *)
(* SpecSynth : one KeyGenerator (key + context) on which to_tokens, which  *)
(*             calls docs, is run once.                                     *)
(*                                                                         *)
(* Rust strings are TLA+ strings; the backtick of the two diagnostics is   *)
(* written as an apostrophe.                                               *)
(***************************************************************************)
EXTENDS FiniteSets, Integers, Sequences, TLC

VARIABLES
    signatures,              \* KeyGenerators.signatures : signature -> Context
    key_names,               \* KeyGenerators.key_names  : key name  -> Context
    enums,                   \* KeyGenerators.enums      : enum name -> SchemaEnum
    signature_skips,         \* KeyGenerators.signature_skips
    key_name_skips,          \* KeyGenerators.key_name_skips
    last_signature_override, \* history: latest Override passed for each signature
    last_key_name_override,  \* history: latest Override passed for each key name
    generator,               \* the KeyGenerator `self` of to_tokens
    tokens,                  \* the TokenStream `tokens` of to_tokens
    outcome                  \* where to_tokens stands: Idle, Ready, Returned, Panicked(message)

vars == <<signatures, key_names, enums, signature_skips, key_name_skips,
          last_signature_override, last_key_name_override,
          generator, tokens, outcome>>

registry_vars == <<signatures, key_names, enums, signature_skips, key_name_skips,
                   last_signature_override, last_key_name_override>>

synth_vars == <<generator, tokens, outcome>>

----------------------------------------------------------------------------
(* Bounds *)

\* largest number of entries in the map handed to one add_*_overrides call
MaxOverridesPerCall == 2

----------------------------------------------------------------------------
(* Option<T> *)

None == [tag |-> "None"]

Some(v) == [tag |-> "Some", v |-> v]

----------------------------------------------------------------------------
(* Schema collaborator: signatures, enums and keys *)

Type(code) == [tag |-> "Type", v |-> code]

Enum(name) == [tag |-> "Enum", v |-> name]

BuiltinCodes == {"b", "i", "u", "x", "t", "d", "(ii)", "as"}

DefinedEnumName == "PreferredAudioSource"

MissingEnumName == "Missing"

Signatures ==
    {Type(c) : c \in BuiltinCodes \cup {"s", "v"}}
        \cup {Enum(DefinedEnumName), Enum(MissingEnumName)}

SchemaEnum(name) == [name |-> name, nicks |-> <<"microphone", "desktop-audio">>]

\* the enum sets a schema can hand to with_defaults
EnumSets == {<<>>, [n \in {DefinedEnumName} |-> SchemaEnum(n)]}

KeyNames == {"theme", "is-maximized"}

Keys ==
    [name : KeyNames, signature : Signatures,
     summary : {None, Some("Preferred theme")}, default : {"false"},
     range : {None}]

----------------------------------------------------------------------------
(* Context *)

new_dissimilar(arg_type, ret_type) ==
    [arg_type |-> arg_type, ret_type |-> ret_type, auxiliary |-> None]

new(type_) == new_dissimilar(type_, type_)

new_with_aux(type_, auxiliary) ==
    [arg_type |-> type_, ret_type |-> type_, auxiliary |-> Some(auxiliary)]

----------------------------------------------------------------------------
(* Override *)

Define(arg_type, ret_type) ==
    [tag |-> "Define", arg_type |-> arg_type, ret_type |-> ret_type]

Skip == [tag |-> "Skip"]

NoOverride == [tag |-> "NoOverride"]

Defines == {Define("u8", "u8"), Define("&[u8]", "Vec<u8>")}

Overrides == Defines \cup {Skip}

\* keys the caller writes overrides for
OverrideSignatures == {Type("as"), Type("v"), Enum(MissingEnumName)}

OverrideKeyNames == {"theme"}

\* the HashMap<K, Override> arguments: one Override per key
OverrideMaps(K) ==
    UNION {[D -> Overrides] :
             D \in {S \in SUBSET K : Cardinality(S) <= MaxOverridesPerCall}}

----------------------------------------------------------------------------
(* HashMap / HashSet helpers *)

Insert(map, k, v) ==
    [x \in DOMAIN map \cup {k} |-> IF x = k THEN v ELSE map[x]]

\* the keys of an overrides map holding the given variant
DefineKeys(overrides) == {k \in DOMAIN overrides : overrides[k].tag = "Define"}

SkipKeys(overrides) == {k \in DOMAIN overrides : overrides[k].tag = "Skip"}

\* variant: a Define for a key that already has a context is ignored
InsertDefines_keep_first(map, overrides) ==
    [x \in DOMAIN map \cup DefineKeys(overrides) |->
        IF x \in DOMAIN map
        THEN map[x]
        ELSE new_dissimilar(overrides[x].arg_type, overrides[x].ret_type)]

\* the for loop of add_*_overrides on the Define arm: the keys of a HashMap
\* are distinct, so the inserts commute and iteration order is immaterial
InsertDefines(map, overrides) ==
    [x \in DOMAIN map \cup DefineKeys(overrides) |->
        IF x \in DefineKeys(overrides)
        THEN new_dissimilar(overrides[x].arg_type, overrides[x].ret_type)
        ELSE map[x]]

\* variant: a Define for a key withdraws an earlier Skip of that key
InsertSkips_define_clears_skip(skips, overrides) ==
    (skips \ DefineKeys(overrides)) \cup SkipKeys(overrides)

\* the Skip arm
InsertSkips(skips, overrides) == skips \cup SkipKeys(overrides)

RecordLast(last, overrides) ==
    [k \in DOMAIN last |-> IF k \in DOMAIN overrides THEN overrides[k] ELSE last[k]]

----------------------------------------------------------------------------
(* KeyGenerators *)

insert_type(map, signature, context) == Insert(map, Type(signature), context)

\* variant: the 64-bit signed code mapped to the 32-bit type
with_defaults_signatures_x_as_i32 ==
    LET m0 == <<>>
        m1 == insert_type(m0, "b", new("bool"))
        m2 == insert_type(m1, "i", new("i32"))
        m3 == insert_type(m2, "u", new("u32"))
        m4 == insert_type(m3, "x", new("i32"))
        m5 == insert_type(m4, "t", new("u64"))
        m6 == insert_type(m5, "d", new("f64"))
        m7 == insert_type(m6, "(ii)", new("(i32, i32)"))
        m8 == insert_type(m7, "as", new_dissimilar("&[&str]", "Vec<String>"))
    IN  m8

with_defaults_signatures ==
    LET m0 == <<>>
        m1 == insert_type(m0, "b", new("bool"))
        m2 == insert_type(m1, "i", new("i32"))
        m3 == insert_type(m2, "u", new("u32"))
        m4 == insert_type(m3, "x", new("i64"))
        m5 == insert_type(m4, "t", new("u64"))
        m6 == insert_type(m5, "d", new("f64"))
        m7 == insert_type(m6, "(ii)", new("(i32, i32)"))
        m8 == insert_type(m7, "as", new_dissimilar("&[&str]", "Vec<String>"))
    IN  m8

KeyGenerator(key, context) == [key |-> key, context |-> context]

\* generators/string.rs
string_key_generator(key) == KeyGenerator(key, new_dissimilar("&str", "String"))

\* generators/enumeration.rs
enumeration_key_generator(key, enum) ==
    KeyGenerator(key, new_with_aux(enum.name, [declares |-> enum]))

GetSome(g) == [tag |-> "Some", generator |-> g]

GetSkip == [tag |-> "Skip"]

GetUnknown == [tag |-> "Unknown"]

\* abort_call_site!: the generation pass ends with this diagnostic
Abort(message) == [tag |-> "Abort", message |-> message]

\* variant: the diagnostic leaves the enum out
MissingEnumMessage_unnamed(enum_name) == "expected an enum definition"

MissingEnumMessage(enum_name) ==
    "expected an enum definition for '" \o enum_name \o "'"

\* variant: the key-name table is consulted before the key-name skip list
get_key_names_before_skips(key) ==
    LET key_signature == key.signature IN
    IF key.name \in DOMAIN key_names
         THEN GetSome(KeyGenerator(key, key_names[key.name]))
    ELSE IF key.name \in key_name_skips THEN GetSkip
    ELSE IF key_signature \in signature_skips THEN GetSkip
    ELSE IF key_signature \in DOMAIN signatures
         THEN GetSome(KeyGenerator(key, signatures[key_signature]))
    ELSE IF key_signature.tag = "Type"
         THEN IF key_signature.v = "s"
              THEN GetSome(string_key_generator(key))
              ELSE GetUnknown
    ELSE IF key_signature.v \in DOMAIN enums
         THEN GetSome(enumeration_key_generator(key, enums[key_signature.v]))
         ELSE Abort(MissingEnumMessage(key_signature.v))

\* variant: the signature table is consulted before the key-name table
get_signatures_before_key_names(key) ==
    LET key_signature == key.signature IN
    IF key.name \in key_name_skips THEN GetSkip
    ELSE IF key_signature \in signature_skips THEN GetSkip
    ELSE IF key_signature \in DOMAIN signatures
         THEN GetSome(KeyGenerator(key, signatures[key_signature]))
    ELSE IF key.name \in DOMAIN key_names
         THEN GetSome(KeyGenerator(key, key_names[key.name]))
    ELSE IF key_signature.tag = "Type"
         THEN IF key_signature.v = "s"
              THEN GetSome(string_key_generator(key))
              ELSE GetUnknown
    ELSE IF key_signature.v \in DOMAIN enums
         THEN GetSome(enumeration_key_generator(key, enums[key_signature.v]))
         ELSE Abort(MissingEnumMessage(key_signature.v))

\* variant: the signature skip list is consulted after the key-name table
get_signature_skips_after_key_names(key) ==
    LET key_signature == key.signature IN
    IF key.name \in key_name_skips THEN GetSkip
    ELSE IF key.name \in DOMAIN key_names
         THEN GetSome(KeyGenerator(key, key_names[key.name]))
    ELSE IF key_signature \in signature_skips THEN GetSkip
    ELSE IF key_signature \in DOMAIN signatures
         THEN GetSome(KeyGenerator(key, signatures[key_signature]))
    ELSE IF key_signature.tag = "Type"
         THEN IF key_signature.v = "s"
              THEN GetSome(string_key_generator(key))
              ELSE GetUnknown
    ELSE IF key_signature.v \in DOMAIN enums
         THEN GetSome(enumeration_key_generator(key, enums[key_signature.v]))
         ELSE Abort(MissingEnumMessage(key_signature.v))

\* variant: a missing enum definition is reported as an unknown signature
get_unknown_for_missing_enum(key) ==
    LET key_signature == key.signature IN
    IF key.name \in key_name_skips THEN GetSkip
    ELSE IF key_signature \in signature_skips THEN GetSkip
    ELSE IF key.name \in DOMAIN key_names
         THEN GetSome(KeyGenerator(key, key_names[key.name]))
    ELSE IF key_signature \in DOMAIN signatures
         THEN GetSome(KeyGenerator(key, signatures[key_signature]))
    ELSE IF key_signature.tag = "Type"
         THEN IF key_signature.v = "s"
              THEN GetSome(string_key_generator(key))
              ELSE GetUnknown
    ELSE IF key_signature.v \in DOMAIN enums
         THEN GetSome(enumeration_key_generator(key, enums[key_signature.v]))
         ELSE GetUnknown

get(key) ==
    LET key_signature == key.signature IN
    IF key.name \in key_name_skips THEN GetSkip
    ELSE IF key_signature \in signature_skips THEN GetSkip
    ELSE IF key.name \in DOMAIN key_names
         THEN GetSome(KeyGenerator(key, key_names[key.name]))
    ELSE IF key_signature \in DOMAIN signatures
         THEN GetSome(KeyGenerator(key, signatures[key_signature]))
    ELSE IF key_signature.tag = "Type"
         THEN IF key_signature.v = "s"
              THEN GetSome(string_key_generator(key))
              ELSE GetUnknown
    ELSE IF key_signature.v \in DOMAIN enums
         THEN GetSome(enumeration_key_generator(key, enums[key_signature.v]))
         ELSE Abort(MissingEnumMessage(key_signature.v))

----------------------------------------------------------------------------
(* Registry specification *)

Idle == [tag |-> "idle"]

SynthIdle ==
    /\ generator = None
    /\ tokens = <<>>
    /\ outcome = Idle

with_defaults ==
    /\ enums \in EnumSets
    /\ signatures = with_defaults_signatures
    /\ key_names = <<>>
    /\ signature_skips = {}
    /\ key_name_skips = {}
    /\ last_signature_override = [s \in OverrideSignatures |-> NoOverride]
    /\ last_key_name_override = [n \in OverrideKeyNames |-> NoOverride]

Init ==
    /\ with_defaults
    /\ SynthIdle

add_signature_overrides ==
    \E overrides \in OverrideMaps(OverrideSignatures) :
        /\ signatures' = InsertDefines(signatures, overrides)
        /\ signature_skips' = InsertSkips(signature_skips, overrides)
        /\ last_signature_override' = RecordLast(last_signature_override, overrides)
        /\ UNCHANGED <<key_names, key_name_skips, enums, last_key_name_override>>
        /\ UNCHANGED synth_vars

add_key_name_overrides ==
    \E overrides \in OverrideMaps(OverrideKeyNames) :
        /\ key_names' = InsertDefines(key_names, overrides)
        /\ key_name_skips' = InsertSkips(key_name_skips, overrides)
        /\ last_key_name_override' = RecordLast(last_key_name_override, overrides)
        /\ UNCHANGED <<signatures, signature_skips, enums, last_signature_override>>
        /\ UNCHANGED synth_vars

Next ==
    \/ add_signature_overrides
    \/ add_key_name_overrides

Spec == Init /\ [][Next]_vars

----------------------------------------------------------------------------
(* Properties of the registry, checked under Spec *)

ContextOf(override) == new_dissimilar(override.arg_type, override.ret_type)

Generate(key, context) == GetSome(KeyGenerator(key, context))

\* the latest override registered for a key in a scope, NoOverride when the
\* model never writes one for it
LastForName(name) ==
    IF name \in OverrideKeyNames THEN last_key_name_override[name] ELSE NoOverride

LastForSignature(signature) ==
    IF signature \in OverrideSignatures
    THEN last_signature_override[signature]
    ELSE NoOverride

ThemeStrings ==
    [name |-> "theme", signature |-> Type("as"), summary |-> None,
     default |-> "false", range |-> None]

MaximizedStrings == [ThemeStrings EXCEPT !.name = "is-maximized"]

ThemeUnknown == [ThemeStrings EXCEPT !.signature = Type("v")]

MaximizedUnknown == [MaximizedStrings EXCEPT !.signature = Type("v")]

ThemeMissingEnum == [ThemeStrings EXCEPT !.signature = Enum(MissingEnumName)]

MaximizedMissingEnum == [MaximizedStrings EXCEPT !.signature = Enum(MissingEnumName)]

\* C1: in every registry state reachable from with_defaults, get returns Skip
\* for every entry whose name is in the name-skip list, whatever its
\* signature and whatever Define overrides are registered for its name or
\* its signature.
C1_NameSkipWins ==
    \A key \in Keys :
        (key.name \in key_name_skips \/ LastForName(key.name) = Skip)
            => get(key) = GetSkip

\* a skipped name that also has a name-scoped Define and whose signature
\* has a signature-scoped Define
C1_Witness ==
    /\ "theme" \in key_name_skips
    /\ "theme" \in DOMAIN key_names
    /\ LastForSignature(Type("as")).tag = "Define"
    /\ Type("as") \notin signature_skips
    /\ get(ThemeStrings) = GetSkip

\* C2: for every entry that is not skipped, a name-scoped Define gives
\* Generate with exactly its types even if a signature-scoped Define and a
\* built-in mapping exist; without a name-scoped override, a signature-scoped
\* Define gives Generate with its types rather than the built-in ones.
C2_OverridePrecedence ==
    \A key \in Keys :
        get(key) # GetSkip =>
            /\ LastForName(key.name).tag = "Define"
                 => get(key) = Generate(key, ContextOf(LastForName(key.name)))
            /\ (LastForName(key.name) = NoOverride
                  /\ LastForSignature(key.signature).tag = "Define")
                 => get(key) = Generate(key, ContextOf(LastForSignature(key.signature)))

\* "as" has its built-in mapping replaced by a signature Define; "theme"
\* carries a different name Define; "is-maximized" has no name override
C2_Witness ==
    /\ LastForName("theme").tag = "Define"
    /\ LastForSignature(Type("as")).tag = "Define"
    /\ LastForName("theme") # LastForSignature(Type("as"))
    /\ get(ThemeStrings) = Generate(ThemeStrings, ContextOf(LastForName("theme")))
    /\ get(MaximizedStrings)
         = Generate(MaximizedStrings, ContextOf(LastForSignature(Type("as"))))

\* C3: once a signature-scoped Skip is registered for a signature, get
\* returns Skip for every entry with that signature, whatever its name,
\* summary or default and whatever Define override or built-in mapping
\* would otherwise apply.
C3_SignatureSkipWins ==
    \A key \in Keys :
        (key.signature \in signature_skips \/ LastForSignature(key.signature) = Skip)
            => get(key) = GetSkip

\* "as" is skipped while "theme" has a name-scoped Define and is not skipped
C3_Witness ==
    /\ Type("as") \in signature_skips
    /\ Type("as") \in DOMAIN signatures
    /\ "theme" \in DOMAIN key_names
    /\ "theme" \notin key_name_skips
    /\ get(ThemeStrings) = GetSkip
    /\ get(MaximizedStrings) = GetSkip

\* C4 as stated: for every entry whose signature is EnumRef(n) with n absent
\* from the enum set, get aborts with a diagnostic naming n and returns
\* neither Generate, Skip nor Unknown.
C4_MissingEnumAlwaysAborts ==
    \A key \in Keys :
        (key.signature.tag = "Enum" /\ key.signature.v \notin DOMAIN enums)
            => get(key) = Abort(MissingEnumMessage(key.signature.v))

\* the steps of get that come before the enum lookup
EarlierStepApplies(key) ==
    \/ key.name \in key_name_skips
    \/ key.signature \in signature_skips
    \/ key.name \in DOMAIN key_names
    \/ key.signature \in DOMAIN signatures

\* C4 amended: an entry whose signature is EnumRef(n) with n absent from the
\* enum set aborts with the diagnostic naming n exactly when no skip and no
\* Define override applies to its name or its signature; otherwise get
\* returns that step's Skip or Generate.
C4_MissingEnumAbortsUnlessOverridden ==
    \A key \in Keys :
        (key.signature.tag = "Enum" /\ key.signature.v \notin DOMAIN enums)
            => IF EarlierStepApplies(key)
               THEN get(key).tag \in {"Skip", "Some"}
               ELSE get(key) = [tag |-> "Abort",
                                message |-> "expected an enum definition for '"
                                               \o key.signature.v \o "'"]

\* overrides are registered, yet the missing enum of "is-maximized" aborts
C4_Witness ==
    /\ "theme" \in DOMAIN key_names
    /\ Type("v") \in DOMAIN signatures
    /\ ~EarlierStepApplies(MaximizedMissingEnum)
    /\ get(MaximizedMissingEnum).tag = "Abort"
    /\ get(ThemeMissingEnum).tag = "Some"

\* C5 as stated: the decision for a key is the one dictated by the most
\* recent override registered for that key in its scope, a later Define
\* replacing an earlier Skip as well as an earlier Define.
C5_LastWriteWins ==
    \A key \in Keys :
        /\ LastForName(key.name) = Skip => get(key) = GetSkip
        /\ (LastForName(key.name).tag = "Define" /\ key.signature \notin signature_skips)
             => get(key) = Generate(key, ContextOf(LastForName(key.name)))
        /\ (LastForName(key.name) = NoOverride /\ LastForSignature(key.signature) = Skip)
             => get(key) = GetSkip
        /\ (LastForName(key.name) = NoOverride
              /\ LastForSignature(key.signature).tag = "Define")
             => get(key) = Generate(key, ContextOf(LastForSignature(key.signature)))

\* C5 amended: among Define overrides the most recent one for a key is the
\* one in force, and a later Skip replaces an earlier Define; a Skip is never
\* replaced, so a key that was ever skipped stays skipped under a later
\* Define, which only updates the (unused) table entry.
C5_LastDefineWinsSkipSticks ==
    /\ \A name \in OverrideKeyNames :
          /\ last_key_name_override[name].tag = "Define"
               => /\ name \in DOMAIN key_names
                  /\ key_names[name] = ContextOf(last_key_name_override[name])
          /\ last_key_name_override[name] = Skip => name \in key_name_skips
    /\ \A signature \in OverrideSignatures :
          /\ last_signature_override[signature].tag = "Define"
               => /\ signature \in DOMAIN signatures
                  /\ signatures[signature] = ContextOf(last_signature_override[signature])
          /\ last_signature_override[signature] = Skip => signature \in signature_skips
    /\ \A key \in Keys :
          /\ (key.name \in key_name_skips \/ key.signature \in signature_skips)
               => get(key) = GetSkip
          /\ (key.name \notin key_name_skips /\ key.signature \notin signature_skips)
               => /\ LastForName(key.name).tag = "Define"
                       => get(key) = Generate(key, ContextOf(LastForName(key.name)))
                  /\ (LastForName(key.name) = NoOverride
                        /\ LastForSignature(key.signature).tag = "Define")
                       => get(key)
                            = Generate(key, ContextOf(LastForSignature(key.signature)))

\* "theme" was skipped and then defined; "v" was defined, then defined again
C5_Witness ==
    /\ "theme" \in key_name_skips
    /\ last_key_name_override["theme"].tag = "Define"
    /\ get(ThemeUnknown) = GetSkip
    /\ last_signature_override[Type("v")] = Define("&[u8]", "Vec<u8>")
    /\ get(MaximizedUnknown) = Generate(MaximizedUnknown, new_dissimilar("&[u8]", "Vec<u8>"))

\* C6: for a primitive Type signature get never aborts and returns Unknown
\* exactly when the name is not skipped, the signature is not skipped, no
\* name override exists, the signature has no built-in or override mapping
\* and is not "s"; for an EnumRef signature get never returns Unknown.
C6_UnknownIsAValue ==
    \A key \in Keys :
        /\ key.signature.tag = "Type"
             => /\ get(key).tag \in {"Some", "Skip", "Unknown"}
                /\ get(key) = GetUnknown
                     <=> /\ key.name \notin key_name_skips
                         /\ key.signature \notin signature_skips
                         /\ LastForName(key.name).tag # "Define"
                         /\ key.signature.v \notin BuiltinCodes
                         /\ LastForSignature(key.signature).tag # "Define"
                         /\ key.signature.v # "s"
        /\ key.signature.tag = "Enum" => get(key) # GetUnknown

\* "v" is unknown for "is-maximized" but generated for "theme", which has a
\* name override; the missing enum aborts
C6_Witness ==
    /\ get(MaximizedUnknown) = GetUnknown
    /\ get(ThemeUnknown).tag = "Some"
    /\ get(MaximizedMissingEnum).tag = "Abort"
    /\ Type("as") \in signature_skips

\* the fixed mapping of each built-in code
BuiltinContext(code) ==
    CASE code = "b" -> [arg_type |-> "bool", ret_type |-> "bool", auxiliary |-> None]
      [] code = "i" -> [arg_type |-> "i32", ret_type |-> "i32", auxiliary |-> None]
      [] code = "u" -> [arg_type |-> "u32", ret_type |-> "u32", auxiliary |-> None]
      [] code = "x" -> [arg_type |-> "i64", ret_type |-> "i64", auxiliary |-> None]
      [] code = "t" -> [arg_type |-> "u64", ret_type |-> "u64", auxiliary |-> None]
      [] code = "d" -> [arg_type |-> "f64", ret_type |-> "f64", auxiliary |-> None]
      [] code = "(ii)" -> [arg_type |-> "(i32, i32)", ret_type |-> "(i32, i32)",
                           auxiliary |-> None]
      [] code = "as" -> [arg_type |-> "&[&str]", ret_type |-> "Vec<String>",
                         auxiliary |-> None]

NoOverridesRegistered ==
    /\ \A name \in OverrideKeyNames : last_key_name_override[name] = NoOverride
    /\ \A signature \in OverrideSignatures :
          last_signature_override[signature] = NoOverride

\* C9: with no overrides registered, every built-in code resolves to
\* Generate with its fixed mapping and no auxiliary, and "s" resolves to the
\* String generator's mapping, the table having no entry for it.
C9_BuiltinMappings ==
    NoOverridesRegistered =>
        \A key \in Keys :
            /\ (key.signature.tag = "Type" /\ key.signature.v \in BuiltinCodes)
                 => get(key) = Generate(key, BuiltinContext(key.signature.v))
            /\ key.signature = Type("s")
                 => /\ Type("s") \notin DOMAIN signatures
                    /\ get(key) = Generate(key, [arg_type |-> "&str",
                                                  ret_type |-> "String",
                                                  auxiliary |-> None])

\* the registry as with_defaults leaves it, resolving "b" and "s"
C9_Witness ==
    /\ NoOverridesRegistered
    /\ get([MaximizedStrings EXCEPT !.signature = Type("b")]).tag = "Some"
    /\ get([MaximizedStrings EXCEPT !.signature = Type("b")]).generator.context.ret_type
         = "bool"
    /\ get([ThemeStrings EXCEPT !.signature = Type("s")]).generator.context.ret_type
         = "String"

\* C10: no operation removes an element from signature_skips or
\* key_name_skips, and an entry whose name or signature is skipped resolves
\* to Skip in every later state.
C10_SkipsArePermanent ==
    [][ /\ key_name_skips \subseteq key_name_skips'
        /\ signature_skips \subseteq signature_skips'
        /\ \A key \in Keys :
              (key.name \in key_name_skips \/ key.signature \in signature_skips)
                  => get(key)' = GetSkip ]_vars

\* both a name and a signature were skipped and a Define came after each
C10_Witness ==
    /\ "theme" \in key_name_skips
    /\ last_key_name_override["theme"].tag = "Define"
    /\ Type("v") \in signature_skips
    /\ last_signature_override[Type("v")].tag = "Define"
    /\ get(ThemeStrings) = GetSkip
    /\ get(MaximizedUnknown) = GetSkip

----------------------------------------------------------------------------
(* KeyGenerator: docs and to_tokens *)

\* variant: the separator is pushed whenever min is there
docs_separator_after_min(key) ==
    LET buf0 == ""
        buf1 == IF key.summary.tag = "Some" /\ key.summary.v # ""
                THEN (buf0 \o key.summary.v) \o "\n"
                ELSE buf0
        buf2 == buf1 \o "\n"
        buf3 == buf2 \o ("default: " \o key.default)
    IN  IF key.range.tag = "Some"
        THEN LET range == key.range.v
                 min_is_some == range.min.tag = "Some" /\ range.min.v # ""
                 max_is_some == range.max.tag = "Some" /\ range.max.v # ""
                 buf4 == IF min_is_some \/ max_is_some
                         THEN (buf3 \o "\n") \o "\n"
                         ELSE buf3
                 buf5 == IF min_is_some
                         THEN buf4 \o ("min: " \o range.min.v)
                         ELSE buf4
                 buf6 == IF min_is_some
                         THEN (buf5 \o ";") \o " "
                         ELSE buf5
                 buf7 == IF max_is_some
                         THEN buf6 \o ("max: " \o range.max.v)
                         ELSE buf6
             IN  buf7
        ELSE buf3

docs(key) ==
    LET buf0 == ""
        buf1 == IF key.summary.tag = "Some" /\ key.summary.v # ""
                THEN (buf0 \o key.summary.v) \o "\n"
                ELSE buf0
        buf2 == buf1 \o "\n"
        buf3 == buf2 \o ("default: " \o key.default)
    IN  IF key.range.tag = "Some"
        THEN LET range == key.range.v
                 min_is_some == range.min.tag = "Some" /\ range.min.v # ""
                 max_is_some == range.max.tag = "Some" /\ range.max.v # ""
                 buf4 == IF min_is_some \/ max_is_some
                         THEN (buf3 \o "\n") \o "\n"
                         ELSE buf3
                 buf5 == IF min_is_some
                         THEN buf4 \o ("min: " \o range.min.v)
                         ELSE buf4
                 buf6 == IF min_is_some /\ max_is_some
                         THEN (buf5 \o ";") \o " "
                         ELSE buf5
                 buf7 == IF max_is_some
                         THEN buf6 \o ("max: " \o range.max.v)
                         ELSE buf6
             IN  buf7
        ELSE buf3

\* heck::ToSnakeCase on the key names of the model
to_snake_case(key_name) ==
    CASE key_name = "is-maximized" -> "is_maximized"
      [] key_name = "window-width" -> "window_width"
      [] key_name = "theme" -> "theme"

\* the strings syn::parse_str::<syn::Type> accepts, among those of the model
TypeExpressions ==
    {"bool", "i32", "u32", "i64", "u64", "f64", "(i32, i32)", "&[&str]",
     "Vec<String>", "&str", "String", "u8", "&[u8]", "Vec<u8>",
     DefinedEnumName, MissingEnumName}

parse_type(s) == IF s \in TypeExpressions THEN Some(s) ELSE None

\* one generated function
Fn(operation, ident, doc, key_name, type) ==
    [operation |-> operation, ident |-> ident, doc |-> doc,
     key_name |-> key_name, type |-> type]

\* the first quote! block
first_block(self) ==
    LET doc == docs(self.key)
        key_name == self.key.name
        getter_func_ident == to_snake_case(key_name)
        connect_changed_func_ident == ("connect_" \o getter_func_ident) \o "_changed"
        bind_func_ident == "bind_" \o getter_func_ident
        create_action_func_ident == ("create_" \o getter_func_ident) \o "_action"
    IN  << Fn("connect_changed", connect_changed_func_ident, doc, key_name, None),
           Fn("bind", bind_func_ident, doc, key_name, None),
           Fn("create_action", create_action_func_ident, doc, key_name, None) >>

\* the second quote! block
second_block(self, set_type, get_type) ==
    LET doc == docs(self.key)
        key_name == self.key.name
        getter_func_ident == to_snake_case(key_name)
        setter_func_ident == "set_" \o getter_func_ident
        try_setter_func_ident == "try_set_" \o getter_func_ident
    IN  << Fn("set", setter_func_ident, doc, key_name, Some(set_type)),
           Fn("try_set", try_setter_func_ident, doc, key_name, Some(set_type)),
           Fn("get", getter_func_ident, doc, key_name, Some(get_type)) >>

Ready == [tag |-> "ready"]

Returned == [tag |-> "returned"]

Panicked(message) == [tag |-> "panicked", message |-> message]

InvalidTypeMessage(s) == "Invalid type '" \o s \o "'"

\* the stream and the outcome to_tokens leaves behind
to_tokens_result(self, stream) ==
    LET extended == stream \o first_block(self)
        get_type == parse_type(self.context.ret_type)
        set_type == parse_type(self.context.arg_type)
    IN  IF get_type = None
        THEN [tokens |-> extended,
              outcome |-> Panicked(InvalidTypeMessage(self.context.ret_type))]
        ELSE IF set_type = None
        THEN [tokens |-> extended,
              outcome |-> Panicked(InvalidTypeMessage(self.context.arg_type))]
        ELSE [tokens |-> extended \o second_block(self, set_type.v, get_type.v),
              outcome |-> Returned]

----------------------------------------------------------------------------
(* Synthesizer specification *)

SynthTypes == {"bool", "Vec<String>", "Vec<", "fn("}

SynthContexts == {new_dissimilar(a, r) : a \in SynthTypes, r \in SynthTypes}

SynthBounds == {None, Some(""), Some("0"), Some("100")}

SynthRanges ==
    {None} \cup {Some([min |-> lo, max |-> hi]) :
                    lo \in SynthBounds \ {Some("100")},
                    hi \in SynthBounds \ {Some("0")}}

SynthKeys ==
    [name : {"is-maximized", "window-width"}, signature : {Type("v")},
     summary : {None, Some(""), Some("Window width")},
     default : {"false", "600"},
     range : SynthRanges]

ThemeKey ==
    [name |-> "theme", signature |-> Type("s"), summary |-> None,
     default |-> "'default'", range |-> None]

\* what the stream holds when to_tokens is entered: nothing, or the bundle
\* of an entry generated before
PriorStreams ==
    {<<>>, to_tokens_result(string_key_generator(ThemeKey), <<>>).tokens}

InitSynth ==
    /\ with_defaults
    /\ enums = <<>>
    /\ generator \in {Some(KeyGenerator(k, c)) : k \in SynthKeys, c \in SynthContexts}
    /\ tokens \in PriorStreams
    /\ outcome = Ready

to_tokens ==
    /\ outcome = Ready
    /\ LET result == to_tokens_result(generator.v, tokens) IN
           /\ tokens' = result.tokens
           /\ outcome' = result.outcome
    /\ UNCHANGED generator
    /\ UNCHANGED registry_vars

NextSynth == to_tokens

SpecSynth == InitSynth /\ [][NextSynth]_vars

----------------------------------------------------------------------------
(* Properties of the synthesizer, checked under SpecSynth *)

ToTokensHasRun == outcome.tag \in {"returned", "panicked"}

\* the functions of the stream generated for the entry of `generator`
OwnFunctions ==
    {i \in 1..Len(tokens) : tokens[i].key_name = generator.v.key.name}

OwnOperations == {tokens[i].operation : i \in OwnFunctions}

SixOperations == {"connect_changed", "bind", "create_action", "set", "try_set", "get"}

IsPresent(option) == option.tag = "Some"

IsNonEmpty(option) == option.tag = "Some" /\ option.v # ""

\* summary line, blank line, default line
DocsHead(key) ==
    (IF IsNonEmpty(key.summary) THEN key.summary.v \o "\n" ELSE "")
        \o "\n" \o "default: " \o key.default

\* the min/max block, `has` deciding which bounds count as being there
DocsRange(key, has(_)) ==
    IF key.range.tag = "None" THEN ""
    ELSE LET min == key.range.v.min
             max == key.range.v.max
         IN  CASE has(min) /\ has(max) ->
                    "\n\n" \o "min: " \o min.v \o "; " \o "max: " \o max.v
               [] has(min) /\ ~has(max) -> "\n\n" \o "min: " \o min.v
               [] ~has(min) /\ has(max) -> "\n\n" \o "max: " \o max.v
               [] OTHER -> ""

\* C7 as stated: the documentation is the summary and a newline if the
\* summary is present and non-empty, a newline, "default: <default>", and,
\* only if at least one of range.min / range.max is present, a blank line
\* and "min: <min>" and/or "max: <max>" joined by "; ".
C7_DocsRangeWhenPresent ==
    ToTokensHasRun =>
        \A i \in OwnFunctions :
            tokens[i].doc = DocsHead(generator.v.key) \o DocsRange(generator.v.key, IsPresent)

\* C7 amended: as stated, except that a bound counts only if it is present
\* and non-empty: an empty min or max is left out like an absent one, and the
\* blank line is written only if a non-empty bound follows.  An empty
\* summary, default "false" and no range give exactly "\ndefault: false";
\* two non-empty bounds end the text with "min: <min>; max: <max>".
C7_DocsRangeWhenNonEmpty ==
    ToTokensHasRun =>
        \A i \in OwnFunctions :
            LET key == generator.v.key IN
            /\ tokens[i].doc = DocsHead(key) \o DocsRange(key, IsNonEmpty)
            /\ (~IsNonEmpty(key.summary) /\ key.default = "false" /\ key.range = None)
                 => tokens[i].doc = "\ndefault: false"
            /\ (key.range # None /\ IsNonEmpty(key.range.v.min) /\ IsNonEmpty(key.range.v.max))
                 => tokens[i].doc
                      = DocsHead(key) \o "\n\n"
                          \o "min: " \o key.range.v.min.v
                          \o "; max: " \o key.range.v.max.v

\* a bundle was generated for an entry with a summary, a non-empty min and
\* a non-empty max
C7_Witness ==
    /\ outcome = Returned
    /\ generator.v.key.summary = Some("Window width")
    /\ generator.v.key.default = "600"
    /\ generator.v.key.range = Some([min |-> Some("0"), max |-> Some("100")])
    /\ \E i \in OwnFunctions :
          tokens[i].doc = "Window width\n\ndefault: 600\n\nmin: 0; max: 100"

\* the type string to_tokens fails on, the return type being parsed first
OffendingType(context) ==
    IF context.ret_type \notin TypeExpressions THEN context.ret_type ELSE context.arg_type

BothTypesParse(context) ==
    context.ret_type \in TypeExpressions /\ context.arg_type \in TypeExpressions

\* C8: if argType or retType does not parse, to_tokens aborts naming the
\* offending string and the stream holds none of the entry's six operations;
\* if both parse, all six are emitted.
C8_AllOrNothing ==
    ToTokensHasRun =>
        IF BothTypesParse(generator.v.context)
        THEN outcome = Returned /\ OwnOperations = SixOperations
        ELSE /\ outcome.tag = "panicked"
             /\ outcome.message
                  = "Invalid type '" \o OffendingType(generator.v.context) \o "'"
             /\ OwnOperations = {}

====
